---- MODULE Spec2Model ----
(***************************************************************************)
(* Model of the fetch-and-cache client of the antenna dashboard            *)
(* (src/src/services/api.js): loadMapData, its error handler and the       *)
(* periodic cache sweep; and of the controller that calls it               *)
(* (src/src/App.jsx): the startup effect, the filters and the viewport     *)
(* handler.                                                                *)
(*                                                                         *)
(* Spec is the client under arbitrary calls, with the clock and the sweep. *)
(* AppSpec is the client driven by the controller, observed within one     *)
(* instant of the clock after each page load; the effect runs once per     *)
(* page load, as in a production build.                                    *)
(*                                                                         *)
(* Time is the value of Date.now() in milliseconds, counted from module    *)
(* load.  A call of loadMapData is a record: the suspended calls are the   *)
(* set `pending`, and `last` is the call that the latest step completed.   *)
(* The payload object that response.json() creates for call                *)
(* number n is [url, id |-> n]: url is the locator the server answered,    *)
(* and two payloads are the same instance iff they are the same record.    *)
(* An error is a record [name, message]; a message is a sequence of words, *)
(* and String.includes is a search for a word in it.                       *)
(***************************************************************************)
EXTENDS Integers, Sequences, FiniteSets, TLC

VARIABLES
    now,        \* Date.now()
    CACHE,      \* the module's Map: url -> entry, NoEntry when the key is absent
    issued,     \* the number of calls of loadMapData so far
    pending,    \* the calls suspended at an await
    last,       \* the call that returned or threw in the latest step, else NoCall
    nextSweep,  \* the time from which the next setInterval callback may run
    lastSweep,  \* what the last sweep callback deleted and what it kept
    SHADOW,     \* the Map of the same program run without the sweep
    loading,    \* App state: the loading flag
    appError,   \* App state: `error`, the message shown, NoMessage for null
    stats,      \* App state: the statistics payload, NoData for null
    antenas,    \* App state: the data set, a sequence of records
    filters,    \* App state: the selections
    startup,    \* the Promise.all of the startup effect
    views,      \* the number of viewport loads started
    viewportArg, \* <<v>> when the latest step called handleViewportChange(v), else <<>>
    groupedAntenas \* the map component's groups of its `antenas`

appVars ==
    <<loading, appError, stats, antenas, filters, startup, views, viewportArg,
      groupedAntenas>>

vars == <<now, CACHE, issued, pending, last, nextSweep, lastSweep, SHADOW,
          loading, appError, stats, antenas, filters, startup, views, viewportArg,
          groupedAntenas>>

----------------------------------------------------------------------------
(* Bounds of the model *)

MaxCalls == 2

MaxLag == 2

MaxViewportLoads == 2

MaxPoints == 3

(* Program constants *)

CACHE_DURATION == 5 * 60 * 1000

FETCH_TIMEOUT == 10000

SWEEP_INTERVAL == 60000

(* The instants at which the clock is observed: module load and the expiry *)
(* of an entry stored at module load, each followed by MaxLag further      *)
(* instants half a request timeout apart, and the sweep one interval after *)
(* that expiry.                                                            *)
Quantum == FETCH_TIMEOUT \div 2

Instants ==
    {base + k * Quantum : base \in {0, CACHE_DURATION}, k \in 0..MaxLag}
        \cup {CACHE_DURATION + SWEEP_INTERVAL}

StatsURL == "/map/stats"

PageURL == "/map/antenas?limit=200"

URLs == {StatsURL, PageURL}

NoData == [url |-> "", id |-> 0]

NoEntry == [data |-> NoData, timestamp |-> -1]

NoError == [name |-> "", message |-> <<>>]

----------------------------------------------------------------------------
(* What the network can answer *)

Responses ==
    { [status |-> 200, statusText |-> "OK"],
      [status |-> 404, statusText |-> "Not Found"],
      [status |-> 500, statusText |-> "Internal Server Error"] }

ResponseOk(response) == response.status \in 200..299

(* Rejections of fetch() other than the timeout: a network failure and an  *)
(* abort.                                                                  *)
FetchErrors ==
    { [name |-> "TypeError", message |-> <<"Failed", "to", "fetch">>],
      [name |-> "AbortError", message |-> <<"The", "operation", "was", "aborted">>] }

(* Rejections of response.json(): the parser quotes the text it could not  *)
(* parse, so the message holds words of the body.                          *)
JsonErrors ==
    { [name |-> "SyntaxError", message |-> <<"Unexpected", "token", "<">>],
      [name |-> "SyntaxError", message |-> <<"Unexpected", "token", "HTTP", "502">>] }

TimeoutDOMException ==
    [name |-> "TimeoutError", message |-> <<"The", "operation", "timed", "out">>]

----------------------------------------------------------------------------
(* loadMapData *)

Includes(message, word) == \E k \in DOMAIN message : message[k] = word

HttpErrorNoStatus(response) ==
    [name |-> "Error", message |-> <<"HTTP", "error">>]

HttpError(response) ==
    [name |-> "Error",
     message |-> <<"HTTP", ToString(response.status), response.statusText>>]

MsgTimeout == <<"El servidor tardo demasiado en responder">>

MsgCancelled == <<"La peticion fue cancelada">>

MsgServerPrefix == <<"Error del servidor:">>

MsgConnection == <<"Error de conexion. Verifica tu internet.">>

(* The catch block without its last branch: an error of no known kind is   *)
(* thrown on as it was caught.                                             *)
CatchNoDefault(error) ==
    IF error.name = "TimeoutError" THEN
        [name |-> "Error", message |-> MsgTimeout]
    ELSE IF error.name = "AbortError" THEN
        [name |-> "Error", message |-> MsgCancelled]
    ELSE IF Includes(error.message, "HTTP") THEN
        [name |-> "Error", message |-> MsgServerPrefix \o error.message]
    ELSE
        error

(* The catch block letting a parse error through *)
CatchSyntaxUnhandled(error) ==
    IF error.name = "SyntaxError" THEN
        error
    ELSE IF error.name = "TimeoutError" THEN
        [name |-> "Error", message |-> MsgTimeout]
    ELSE IF error.name = "AbortError" THEN
        [name |-> "Error", message |-> MsgCancelled]
    ELSE IF Includes(error.message, "HTTP") THEN
        [name |-> "Error", message |-> MsgServerPrefix \o error.message]
    ELSE
        [name |-> "Error", message |-> MsgConnection]

(* The catch block: the error thrown to the caller for a caught error.     *)
Catch(error) ==
    IF error.name = "TimeoutError" THEN
        [name |-> "Error", message |-> MsgTimeout]
    ELSE IF error.name = "AbortError" THEN
        [name |-> "Error", message |-> MsgCancelled]
    ELSE IF Includes(error.message, "HTTP") THEN
        [name |-> "Error", message |-> MsgServerPrefix \o error.message]
    ELSE
        [name |-> "Error", message |-> MsgConnection]

(* The cache check with the wrong duration *)
IsFreshShort(cached, t) ==
    cached # NoEntry /\ t - cached.timestamp < FETCH_TIMEOUT

(* The cache check with <= for < *)
IsFreshInclusive(cached, t) ==
    cached # NoEntry /\ t - cached.timestamp <= CACHE_DURATION

(* The cache check of line 39 *)
IsFresh(cached, t) ==
    cached # NoEntry /\ t - cached.timestamp < CACHE_DURATION

(* The sweep's test with the wrong duration *)
IsExpiredShort(value, t) == t - value.timestamp > SWEEP_INTERVAL

(* The sweep's test with >= for > *)
IsExpiredInclusive(value, t) == t - value.timestamp >= CACHE_DURATION

(* The sweep's test of line 141 *)
IsExpired(value, t) == t - value.timestamp > CACHE_DURATION

(* A call at its entry: `cached` is the local of line 38, `requests` the   *)
(* number of times the call has invoked fetch(), `parsed` whether it has   *)
(* invoked response.json(); `cause` is the error caught, `why` the kind of *)
(* event that raised it and `error` the error thrown to the caller;        *)
(* `replaced` is what the Map held under the locator when the call stored  *)
(* its entry.                                                              *)
CallRecord(id, url, start, cached) ==
    [id |-> id, url |-> url, start |-> start, cached |-> cached,
     pc |-> "entry", hit |-> FALSE, requests |-> 0, parsed |-> FALSE,
     status |-> 0, statusText |-> "", result |-> NoData,
     cause |-> NoError, why |-> "", error |-> NoError, replaced |-> NoEntry]

NewCall(id, url) == CallRecord(id, url, now, CACHE[url])

NoCall == [CallRecord(0, "", 0, NoEntry) EXCEPT !.pc = "none"]

(* A timeout that fires only after more than 10 seconds *)
TimedOutLate(c) == now - c.start > FETCH_TIMEOUT

TimedOut(c) == now - c.start >= FETCH_TIMEOUT

(* A catch block that repeats the request before it throws *)
ThrownRetried(c, error, why) ==
    [c EXCEPT !.pc = "threw", !.cause = error, !.why = why, !.error = Catch(error),
              !.requests = c.requests + 1]

(* The call record after the catch block has thrown *)
Thrown(c, error, why) ==
    [c EXCEPT !.pc = "threw", !.cause = error, !.why = why, !.error = Catch(error)]

(* A failing call that drops the entry of its locator *)
CacheOnFailureEvict(url) == [CACHE EXCEPT ![url] = NoEntry]

(* What a failing call does to the cache: nothing, lines 95-113 *)
CacheOnFailure(url) == CACHE

(* A lookup that deletes the stale entry it finds *)
CacheOnMissEvict(url) == [CACHE EXCEPT ![url] = NoEntry]

(* What a lookup that finds no fresh entry does to the cache: nothing,     *)
(* lines 38-44                                                             *)
CacheOnMiss(url) == CACHE

(* A hit that renews the entry it returns *)
CacheOnHitTouch(url) == [CACHE EXCEPT ![url].timestamp = now]

(* What a call answered from the cache does to the cache: nothing, lines   *)
(* 39-42                                                                   *)
CacheOnHit(url) == CACHE

(* A store under one key for every locator *)
CacheOnSuccessOneKey(url, data) ==
    LET key == CHOOSE k \in DOMAIN CACHE : TRUE
    IN  [CACHE EXCEPT ![key] = [data |-> data, timestamp |-> now]]

(* A store that leaves a fresh entry in place *)
CacheOnSuccessFirstWins(url, data) ==
    IF CACHE[url] # NoEntry /\ now - CACHE[url].timestamp < CACHE_DURATION
    THEN CACHE
    ELSE [CACHE EXCEPT ![url] = [data |-> data, timestamp |-> now]]

(* A store stamped with the time at which its call started *)
CacheOnSuccessStampedAtStart(url, data) ==
    LET c == CHOOSE c \in pending : c.id = data.id
    IN  [CACHE EXCEPT ![url] = [data |-> data, timestamp |-> c.start]]

(* A store that keeps the timestamp of the entry it overwrites *)
CacheOnSuccessKeepTimestamp(url, data) ==
    [CACHE EXCEPT ![url] = [data |-> data,
                            timestamp |-> IF CACHE[url] # NoEntry
                                          THEN CACHE[url].timestamp ELSE now]]

(* What a successful call stores, lines 87-90 *)
CacheOnSuccess(url, data) ==
    [CACHE EXCEPT ![url] = [data |-> data, timestamp |-> now]]

(* Lines 38-61: the cache check, and on a miss the start of the request.   *)
Call(url) ==
    /\ issued' = issued + 1
    /\ LET c == NewCall(issued + 1, url)
       IN  IF IsFresh(c.cached, now)
           THEN /\ last' = [c EXCEPT !.hit = TRUE, !.pc = "returned",
                                     !.result = c.cached.data]
                /\ pending' = pending
                /\ CACHE' = CacheOnHit(url)
           ELSE /\ pending' = pending \cup {[c EXCEPT !.pc = "fetch", !.requests = 1]}
                /\ last' = NoCall
                /\ CACHE' = CacheOnMiss(url)
    /\ UNCHANGED <<now, nextSweep, lastSweep>>

(* A call of loadMapData by an arbitrary caller *)
LoadMapData(url) ==
    /\ issued < MaxCalls
    /\ Call(url)

(* Lines 55-71: fetch() resolves with a response; a status outside the     *)
(* success range is thrown and caught at once.                             *)
FetchResolve(c, response) ==
    /\ c.pc = "fetch"
    /\ ~TimedOut(c)
    /\ LET r == [c EXCEPT !.status = response.status,
                          !.statusText = response.statusText]
       IN  IF ~ResponseOk(response)
           THEN /\ last' = Thrown(r, HttpError(response), "status")
                /\ pending' = pending \ {c}
                /\ CACHE' = CacheOnFailure(c.url)
           ELSE /\ pending' = (pending \ {c}) \cup {[r EXCEPT !.pc = "json", !.parsed = TRUE]}
                /\ last' = NoCall
                /\ CACHE' = CACHE
    /\ UNCHANGED <<now, issued, nextSweep, lastSweep>>

(* Line 55: fetch() rejects (network failure, abort) *)
FetchReject(c, error) ==
    /\ c.pc = "fetch"
    /\ ~TimedOut(c)
    /\ last' = Thrown(c, error, IF error.name = "AbortError" THEN "cancel" ELSE "network")
    /\ pending' = pending \ {c}
    /\ CACHE' = CacheOnFailure(c.url)
    /\ UNCHANGED <<now, issued, nextSweep, lastSweep>>

(* Lines 79-93: response.json() resolves with a new payload object; the    *)
(* entry is stored and the payload returned.                               *)
JsonResolve(c) ==
    /\ c.pc = "json"
    /\ ~TimedOut(c)
    /\ LET data == [url |-> c.url, id |-> c.id]
       IN  /\ CACHE' = CacheOnSuccess(c.url, data)
           /\ last' = [c EXCEPT !.pc = "returned", !.result = data,
                                !.replaced = CACHE[c.url]]
    /\ pending' = pending \ {c}
    /\ UNCHANGED <<now, issued, nextSweep, lastSweep>>

(* Line 79: response.json() rejects *)
JsonReject(c, error) ==
    /\ c.pc = "json"
    /\ ~TimedOut(c)
    /\ last' = Thrown(c, error, "parse")
    /\ pending' = pending \ {c}
    /\ CACHE' = CacheOnFailure(c.url)
    /\ UNCHANGED <<now, issued, nextSweep, lastSweep>>

(* Line 60: AbortSignal.timeout(10000) aborts the request, whichever await *)
(* the call is suspended at.                                               *)
Timeout(c) ==
    /\ TimedOut(c)
    /\ last' = Thrown(c, TimeoutDOMException, "timeout")
    /\ pending' = pending \ {c}
    /\ CACHE' = CacheOnFailure(c.url)
    /\ UNCHANGED <<now, issued, nextSweep, lastSweep>>

----------------------------------------------------------------------------
(* The periodic sweep, lines 136-150 *)

SweptCache(t) ==
    [k \in DOMAIN CACHE |-> IF CACHE[k] # NoEntry /\ IsExpired(CACHE[k], t)
                    THEN NoEntry ELSE CACHE[k]]

Sweep ==
    /\ now >= nextSweep
    /\ CACHE' = SweptCache(now)
    /\ lastSweep' = [deleted |-> {k \in DOMAIN CACHE : CACHE[k] # NoEntry /\ CACHE'[k] = NoEntry},
                     kept |-> {k \in DOMAIN CACHE : CACHE'[k] # NoEntry}]
    /\ nextSweep' = ((now \div SWEEP_INTERVAL) + 1) * SWEEP_INTERVAL
    /\ last' = NoCall
    /\ UNCHANGED <<now, issued, pending>>

(* The clock *)
Tick(t) ==
    /\ t > now
    /\ now' = t
    /\ last' = NoCall
    /\ UNCHANGED <<CACHE, issued, pending, nextSweep, lastSweep>>

(* The same program without the sweep: its Map receives every store and   *)
(* never loses an entry.                                                   *)
ShadowStep ==
    SHADOW' = IF last' # NoCall /\ last'.pc = "returned" /\ last'.requests > 0
              THEN [SHADOW EXCEPT ![last'.url] = CACHE'[last'.url]]
              ELSE SHADOW

----------------------------------------------------------------------------
(* The controller, src/src/App.jsx *)

(* useState(null) of `error`, and the message of line 97 *)
NoMessage == <<>>

MsgStartup ==
    <<"No se pudieron cargar los datos de antenas. Verifica tu conexion.">>

(* The selections offered; "" is no selection *)
Operadores == {"", "Movistar"}

Tecnologias == {"", "5G"}

(* The viewports the map reports; NoViewport is a null argument *)
NoViewport == [bbox |-> <<>>, zoom |-> -1]

Viewports == {[bbox |-> <<-4, 40, -3, 41>>, zoom |-> z] : z \in {10, 11}}

(* useState of `filters`, lines 55-59 *)
NoFilters == [operador |-> "", tecnologia |-> "", viewport |-> NoViewport]

FilterStates ==
    {[NoFilters EXCEPT !.operador = o, !.tecnologia = t] :
        o \in Operadores, t \in Tecnologias}

(* The objects passed to updateFilters: one selection, or both cleared *)
FilterChanges ==
    {[operador |-> o] : o \in Operadores}
        \cup {[tecnologia |-> t] : t \in Tecnologias}
        \cup {[operador |-> "", tecnologia |-> ""]}

(* An update that replaces the object: unnamed fields fall back to their   *)
(* defaults.                                                               *)
MergeReplace(prev, newFilters) ==
    [k \in DOMAIN prev |->
        IF k \in DOMAIN newFilters THEN newFilters[k]
        ELSE IF k = "viewport" THEN prev[k] ELSE ""]

(* { ...prev, ...newFilters }, line 115 *)
Merge(prev, newFilters) ==
    [k \in DOMAIN prev |-> IF k \in DOMAIN newFilters THEN newFilters[k] ELSE prev[k]]

(* bbox.join(',') as URLSearchParams serialises it: the comma is encoded *)
RECURSIVE Join(_)
Join(bbox) ==
    IF Len(bbox) = 0 THEN ""
    ELSE IF Len(bbox) = 1 THEN ToString(bbox[1])
    ELSE ToString(bbox[1]) \o "%2C" \o Join(Tail(bbox))

(* A threshold that sends zoom 10 to the individual records *)
EndpointBelow(zoom) == IF zoom < 10 THEN "/map/clusters" ELSE "/map/antenas"

(* Line 157 *)
Endpoint(zoom) == IF zoom <= 10 THEN "/map/clusters" ELSE "/map/antenas"

(* Lines 159-166: the query string *)
Params(viewport, f) ==
    "bbox=" \o Join(viewport.bbox) \o "&zoom=" \o ToString(viewport.zoom)
        \o (IF f.operador # "" THEN "&operador=" \o f.operador ELSE "")
        \o (IF f.tecnologia # "" THEN "&tecnologia=" \o f.tecnologia ELSE "")

(* Line 169: the locator of a viewport load (the path after API_BASE) *)
ViewportURL(viewport, f) == Endpoint(viewport.zoom) \o "?" \o Params(viewport, f)

Locators == URLs \cup {ViewportURL(v, f) : v \in Viewports, f \in FilterStates}

(* The records of a payload: with properties, or lacking them; a property *)
(* that is missing reads as "undefined".                                   *)
NoProperties == [operador |-> "undefined", tecnologia |-> "undefined"]

Antena(operador, tecnologia) ==
    [hasProperties |-> TRUE,
     properties |-> [operador |-> operador, tecnologia |-> tecnologia]]

Bare == [hasProperties |-> FALSE, properties |-> NoProperties]

(* The bodies the server answers with, by the number of the request: a     *)
(* body has a `features` list or lacks it.                                 *)
Bodies ==
    << [hasFeatures |-> TRUE,
        features |-> <<Bare, Antena("Movistar", "5G"), Antena("Vodafone", "4G")>>],
       [hasFeatures |-> TRUE,
        features |-> <<Antena("Movistar", "undefined"), Antena("Movistar", "5G")>>],
       [hasFeatures |-> TRUE,
        features |-> <<Antena("Movistar", "5G"), Antena("Vodafone", "5G"),
                       Antena("Movistar", "4G"), Bare,
                       Antena("undefined", "5G"), Antena("Movistar", "5G")>>],
       [hasFeatures |-> FALSE, features |-> <<>>] >>

Body(data) == Bodies[(data.id % Len(Bodies)) + 1]

(* data.features || [], lines 92 and 172 *)
FeaturesOrEmpty(data) ==
    IF Body(data).hasFeatures THEN Body(data).features ELSE <<>>

(* A filter that keeps the records lacking properties *)
KeepLacking(antena, f) ==
    \/ ~antena.hasProperties
    \/ /\ ~(f.operador # "" /\ antena.properties.operador # f.operador)
       /\ ~(f.tecnologia # "" /\ antena.properties.tecnologia # f.tecnologia)

(* Lines 125-139: the callback of antenas.filter *)
Keep(antena, f) ==
    LET props == IF antena.hasProperties THEN antena.properties ELSE NoProperties
    IN  IF f.operador # "" /\ props.operador # f.operador THEN FALSE
        ELSE IF f.tecnologia # "" /\ props.tecnologia # f.tecnologia THEN FALSE
        ELSE TRUE

(* Lines 124-141: the displayed subset *)
FilteredAntenas ==
    LET Test(antena) == Keep(antena, filters)
    IN  SelectSeq(antenas, Test)

(* The calls of the startup effect, lines 80 and 82 *)
StatsCall == 1

PageCall == 2

StartupIds == {StatsCall, PageCall}

NoStartup ==
    [state |-> "idle", results |-> [i \in StartupIds |-> NoData], failed |-> {}]

(* A join that waits for every load before it rejects *)
StartupAfterAllSettled(c) ==
    LET results == IF c.pc = "returned"
                   THEN [startup.results EXCEPT ![c.id] = c.result]
                   ELSE startup.results
        failed  == IF c.pc = "threw" THEN startup.failed \cup {c.id} ELSE startup.failed
        done    == {i \in StartupIds : results[i] # NoData}
    IN  [state   |-> IF startup.state # "pending" THEN startup.state
                     ELSE IF done \cup failed # StartupIds THEN "pending"
                     ELSE IF failed # {} THEN "rejected"
                     ELSE "fulfilled",
         results |-> results,
         failed  |-> failed]

(* A join that fulfils with whatever the page load gave *)
StartupAfterPartial(c) ==
    LET results == IF c.pc = "returned"
                   THEN [startup.results EXCEPT ![c.id] = c.result]
                   ELSE startup.results
        failed  == IF c.pc = "threw" THEN startup.failed \cup {c.id} ELSE startup.failed
        done    == {i \in StartupIds : results[i] # NoData}
    IN  [state   |-> IF startup.state # "pending" THEN startup.state
                     ELSE IF StatsCall \in failed THEN "rejected"
                     ELSE IF done \cup failed = StartupIds THEN "fulfilled"
                     ELSE "pending",
         results |-> results,
         failed  |-> failed]

(* A join that loses a rejection and goes on waiting *)
StartupAfterHang(c) ==
    LET results == IF c.pc = "returned"
                   THEN [startup.results EXCEPT ![c.id] = c.result]
                   ELSE startup.results
        failed  == IF c.pc = "threw" THEN startup.failed \cup {c.id} ELSE startup.failed
        done    == {i \in StartupIds : results[i] # NoData}
    IN  [state   |-> IF startup.state # "pending" THEN startup.state
                     ELSE IF done = StartupIds THEN "fulfilled"
                     ELSE "pending",
         results |-> results,
         failed  |-> failed]

(* Promise.all, line 78, when the startup call c returns or throws: it     *)
(* rejects with the first rejection and fulfils when every load has        *)
(* returned; once settled it stays as it is.  `failed` is the set of       *)
(* startup calls that have thrown.                                         *)
StartupAfter(c) ==
    LET results == IF c.pc = "returned"
                   THEN [startup.results EXCEPT ![c.id] = c.result]
                   ELSE startup.results
        failed  == IF c.pc = "threw" THEN startup.failed \cup {c.id} ELSE startup.failed
        done    == {i \in StartupIds : results[i] # NoData}
    IN  [state   |-> IF startup.state # "pending" THEN startup.state
                     ELSE IF c.pc = "threw" THEN "rejected"
                     ELSE IF done = StartupIds THEN "fulfilled"
                     ELSE "pending",
         results |-> results,
         failed  |-> failed]

(* Lines 78-101: initializeData resumes when the Promise.all settles *)
InitializeDataResume(c) ==
    LET settled == StartupAfter(c)
    IN  /\ startup' = settled
        /\ IF startup.state = "pending" /\ settled.state = "fulfilled"
           THEN /\ stats' = settled.results[StatsCall]
                /\ antenas' = FeaturesOrEmpty(settled.results[PageCall])
                /\ loading' = FALSE
                /\ appError' = appError
           ELSE IF startup.state = "pending" /\ settled.state = "rejected"
           THEN /\ appError' = MsgStartup
                /\ loading' = FALSE
                /\ UNCHANGED <<stats, antenas>>
           ELSE UNCHANGED <<loading, appError, stats, antenas>>

(* A handler that empties the data set when its load fails *)
AntenasAfterViewportCleared(c) ==
    IF c.pc = "returned" THEN FeaturesOrEmpty(c.result) ELSE <<>>

(* A handler that drops the response of a load when a load issued after   *)
(* it has already stored its response                                      *)
AntenasAfterViewportGuarded(c) ==
    IF c.pc = "returned" /\ \A k \in DOMAIN CACHE : CACHE[k].data.id <= c.result.id
    THEN FeaturesOrEmpty(c.result) ELSE antenas

(* A handler that adds the response to the data set *)
AntenasAfterViewportAppended(c) ==
    IF c.pc = "returned" THEN antenas \o FeaturesOrEmpty(c.result) ELSE antenas

(* Lines 171-177: the data set after the viewport load c returned or threw *)
AntenasAfterViewport(c) ==
    IF c.pc = "returned" THEN FeaturesOrEmpty(c.result) ELSE antenas

(* Lines 171-177: handleViewportChange resumes *)
HandleViewportChangeResume(c) ==
    /\ antenas' = AntenasAfterViewport(c)
    /\ UNCHANGED <<loading, appError, stats, startup>>

(* What the controller does with the call that the step completed *)
Deliver ==
    IF last' = NoCall THEN UNCHANGED <<loading, appError, stats, antenas, startup>>
    ELSE IF last'.id \in StartupIds THEN InitializeDataResume(last')
    ELSE HandleViewportChangeResume(last')

(* Lines 62-106: the effect, up to the await: both loads are started.  It  *)
(* runs once, right after the page has loaded, when the Map is empty.      *)
Mount ==
    /\ startup.state = "idle"
    /\ \A url \in URLs : ~IsFresh(CACHE[url], now)
    /\ loading' = TRUE
    /\ appError' = NoMessage
    /\ issued' = issued + 2
    /\ pending' = pending \cup
          {[NewCall(issued + 1, StatsURL) EXCEPT !.pc = "fetch", !.requests = 1],
           [NewCall(issued + 2, PageURL) EXCEPT !.pc = "fetch", !.requests = 1]}
    /\ last' = NoCall
    /\ startup' = [startup EXCEPT !.state = "pending"]
    /\ viewportArg' = <<>>
    /\ UNCHANGED <<now, CACHE, nextSweep, lastSweep, stats, antenas, filters, views,
                   groupedAntenas>>

(* The main screen, lines 218-238, is rendered *)
MainScreen == ~loading /\ appError = NoMessage

(* Lines 114-116: updateFilters, called by the controls *)
UpdateFilters(newFilters) ==
    /\ MainScreen
    /\ filters' = Merge(filters, newFilters)
    /\ last' = NoCall
    /\ viewportArg' = <<>>
    /\ UNCHANGED <<now, CACHE, issued, pending, nextSweep, lastSweep,
                   loading, appError, stats, antenas, startup, views, groupedAntenas>>

(* Lines 149-170: handleViewportChange, called by the map, up to the await *)
HandleViewportChange(viewport) ==
    /\ MainScreen
    /\ IF viewport = NoViewport
       THEN /\ last' = NoCall
            /\ UNCHANGED <<now, CACHE, issued, pending, nextSweep, lastSweep, views>>
       ELSE /\ views < MaxViewportLoads
            /\ views' = views + 1
            /\ Call(ViewportURL(viewport, filters))
    /\ filters' = filters
    /\ viewportArg' = <<viewport>>
    /\ groupedAntenas' = groupedAntenas

(* Lines 200-210: the button of the error screen reloads the page *)
Reload ==
    /\ ~loading
    /\ appError # NoMessage
    /\ now' = 0
    /\ CACHE' = [k \in Locators |-> NoEntry]
    /\ issued' = 0
    /\ pending' = {}
    /\ last' = NoCall
    /\ nextSweep' = SWEEP_INTERVAL
    /\ lastSweep' = [deleted |-> {}, kept |-> {}]
    /\ SHADOW' = [k \in Locators |-> NoEntry]
    /\ loading' = TRUE
    /\ appError' = NoMessage
    /\ stats' = NoData
    /\ antenas' = <<>>
    /\ filters' = NoFilters
    /\ startup' = NoStartup
    /\ views' = 0
    /\ viewportArg' = <<>>
    /\ groupedAntenas' = <<>>

(* The answers and failures the controller is driven with.  It treats     *)
(* every failure alike and never reads the clock, so it is driven with one *)
(* failure of each await and observed within one instant of the clock.     *)
AppResponses == {r \in Responses : r.status \in {200, 500}}

AppFetchErrors == {e \in FetchErrors : e.name = "TypeError"}

AppJsonErrors == {e \in JsonErrors : ~Includes(e.message, "HTTP")}

----------------------------------------------------------------------------

Init ==
    /\ now = 0
    /\ CACHE = [k \in Locators |-> NoEntry]
    /\ issued = 0
    /\ pending = {}
    /\ last = NoCall
    /\ nextSweep = SWEEP_INTERVAL
    /\ lastSweep = [deleted |-> {}, kept |-> {}]
    /\ SHADOW = [k \in Locators |-> NoEntry]
    /\ loading = TRUE
    /\ appError = NoMessage
    /\ stats = NoData
    /\ antenas = <<>>
    /\ filters = NoFilters
    /\ startup = NoStartup
    /\ views = 0
    /\ viewportArg = <<>>
    /\ groupedAntenas = <<>>

Next ==
    \/ (\E url \in URLs : LoadMapData(url)) /\ ShadowStep /\ UNCHANGED appVars
    \/ (\E c \in pending, response \in Responses : FetchResolve(c, response))
          /\ ShadowStep /\ UNCHANGED appVars
    \/ (\E c \in pending, error \in FetchErrors : FetchReject(c, error))
          /\ ShadowStep /\ UNCHANGED appVars
    \/ (\E c \in pending : JsonResolve(c)) /\ ShadowStep /\ UNCHANGED appVars
    \/ (\E c \in pending, error \in JsonErrors : JsonReject(c, error))
          /\ ShadowStep /\ UNCHANGED appVars
    \/ (\E c \in pending : Timeout(c)) /\ ShadowStep /\ UNCHANGED appVars
    \/ Sweep /\ ShadowStep /\ UNCHANGED appVars
    \/ (\E t \in Instants : Tick(t)) /\ ShadowStep /\ UNCHANGED appVars

Spec == Init /\ [][Next]_vars

(* The client driven by the controller *)
AppNext ==
    \/ Mount /\ ShadowStep
    \/ (\E newFilters \in FilterChanges : UpdateFilters(newFilters)) /\ ShadowStep
    \/ (\E viewport \in Viewports \cup {NoViewport} : HandleViewportChange(viewport))
          /\ ShadowStep /\ Deliver
    \/ (\E c \in pending, response \in AppResponses : FetchResolve(c, response))
          /\ ShadowStep /\ Deliver /\ UNCHANGED <<filters, views, groupedAntenas>>
          /\ viewportArg' = <<>>
    \/ (\E c \in pending, error \in AppFetchErrors : FetchReject(c, error))
          /\ ShadowStep /\ Deliver /\ UNCHANGED <<filters, views, groupedAntenas>>
          /\ viewportArg' = <<>>
    \/ (\E c \in pending : JsonResolve(c))
          /\ ShadowStep /\ Deliver /\ UNCHANGED <<filters, views, groupedAntenas>>
          /\ viewportArg' = <<>>
    \/ (\E c \in pending, error \in AppJsonErrors : JsonReject(c, error))
          /\ ShadowStep /\ Deliver /\ UNCHANGED <<filters, views, groupedAntenas>>
          /\ viewportArg' = <<>>
    \/ Reload

AppSpec == Init /\ [][AppNext]_vars

(* One page load of the controller with the clock: time passes from page   *)
(* load to the instant at which the requests made at page load are         *)
(* aborted.  The selections stay as they are at page load.                 *)
LiveInstants == {0, FETCH_TIMEOUT}

CallIds == 1..(Cardinality(StartupIds) + MaxViewportLoads)

(* A step of the controller caused by an event of call c's request *)
Resumes(step) ==
    /\ step
    /\ ShadowStep
    /\ Deliver
    /\ UNCHANGED <<filters, views, groupedAntenas>>
    /\ viewportArg' = <<>>

LiveNext ==
    \/ Mount /\ ShadowStep
    \/ (\E viewport \in Viewports \cup {NoViewport} : HandleViewportChange(viewport))
          /\ ShadowStep /\ Deliver
    \/ Resumes(\E c \in pending, response \in AppResponses : FetchResolve(c, response))
    \/ Resumes(\E c \in pending, error \in AppFetchErrors : FetchReject(c, error))
    \/ Resumes(\E c \in pending : JsonResolve(c))
    \/ Resumes(\E c \in pending, error \in AppJsonErrors : JsonReject(c, error))
    \/ Resumes(\E c \in pending : Timeout(c))
    \/ (\E t \in LiveInstants : Tick(t)) /\ ShadowStep /\ UNCHANGED appVars

(* The request of call number i gets an answer, fails or is aborted by its *)
(* timeout, and the call resumes.                                          *)
Settles(i) ==
    \E c \in pending :
        /\ c.id = i
        /\ Resumes(\/ \E response \in AppResponses : FetchResolve(c, response)
                   \/ \E error \in AppFetchErrors : FetchReject(c, error)
                   \/ JsonResolve(c)
                   \/ \E error \in AppJsonErrors : JsonReject(c, error)
                   \/ Timeout(c))

(* The effect runs after the first render, and every request made gets an *)
(* answer or reaches its timeout.                                          *)
LiveSpec ==
    /\ Init
    /\ [][LiveNext]_vars
    /\ WF_vars(Mount /\ ShadowStep)
    /\ \A i \in CallIds : WF_vars(Settles(i))

----------------------------------------------------------------------------
(* The map component's grouping of nearby points, src/README.md lines      *)
(* 174-217.  Coordinates are [lon, lat] in thousandths of a degree.        *)

(* groupDistance, 0.01 degree *)
GroupDistance == 10

(* The positions of the antennas given to the map *)
Positions == {<<x, y>> : x \in {0, 6, 10, 12}, y \in {0, 8}}

GeoAntena(coordinates) == [coordinates |-> coordinates]

RECURSIVE ListsUpTo(_)
ListsUpTo(n) ==
    IF n = 0 THEN {<<>>}
    ELSE ListsUpTo(n - 1)
            \cup {Append(list, GeoAntena(p)) : list \in ListsUpTo(n - 1), p \in Positions}

PointLists == ListsUpTo(MaxPoints)

(* The square of the distance of lines 190-193 *)
Distance2(coords, groupCoords) ==
    (coords[1] - groupCoords[1]) * (coords[1] - groupCoords[1])
        + (coords[2] - groupCoords[2]) * (coords[2] - groupCoords[2])

(* A test that also groups a point at exactly the grouping distance *)
NearInclusive(coords, groupCoords) ==
    Distance2(coords, groupCoords) <= GroupDistance * GroupDistance

(* Line 196: distance < groupDistance, compared by the squares *)
Near(coords, groupCoords) ==
    Distance2(coords, groupCoords) < GroupDistance * GroupDistance

(* Lines 181-213: the body of forEach for the antenna at index i.  A group *)
(* is the copy of its first antenna, `rep`, with a count; `members` are    *)
(* the indices of the antennas counted in it.                              *)
AddToGroups(groups, list, i) ==
    LET coords == list[i].coordinates
        near   == {g \in 1..Len(groups) : Near(coords, groups[g].coordinates)}
    IN  IF near # {}
        THEN LET g == CHOOSE g \in near : \A h \in near : g <= h
             IN  [groups EXCEPT ![g].count = @ + 1, ![g].members = @ \cup {i}]
        ELSE Append(groups, [coordinates |-> coords, count |-> 1,
                             rep |-> i, members |-> {i}])

RECURSIVE GroupFrom(_, _, _)
GroupFrom(groups, list, i) ==
    IF i > Len(list) THEN groups
    ELSE GroupFrom(AddToGroups(groups, list, i), list, i + 1)

(* Lines 174-217: groupedAntenas *)
GroupedAntenas(list) == IF Len(list) = 0 THEN <<>> ELSE GroupFrom(<<>>, list, 1)

(* The map component is rendered with a list of antennas *)
GroupInit ==
    /\ now = 0
    /\ CACHE = [k \in Locators |-> NoEntry]
    /\ issued = 0
    /\ pending = {}
    /\ last = NoCall
    /\ nextSweep = SWEEP_INTERVAL
    /\ lastSweep = [deleted |-> {}, kept |-> {}]
    /\ SHADOW = [k \in Locators |-> NoEntry]
    /\ loading = FALSE
    /\ appError = NoMessage
    /\ stats = NoData
    /\ antenas \in PointLists
    /\ filters = NoFilters
    /\ startup = NoStartup
    /\ views = 0
    /\ viewportArg = <<>>
    /\ groupedAntenas = <<>>

(* useMemo of line 174 computes the groups *)
GroupAntenas ==
    /\ groupedAntenas = <<>>
    /\ antenas # <<>>
    /\ groupedAntenas' = GroupedAntenas(antenas)
    /\ UNCHANGED <<now, CACHE, issued, pending, last, nextSweep, lastSweep, SHADOW,
                   loading, appError, stats, antenas, filters, startup, views,
                   viewportArg>>

GroupNext == GroupAntenas

GroupSpec == GroupInit /\ [][GroupNext]_vars

----------------------------------------------------------------------------
(* Vocabulary of the properties *)

AllCalls == pending \cup (IF last = NoCall THEN {} ELSE {last})

FourKinds == {"TimeoutError", "CancelledError", "ServerError", "ConnectionError"}

(* The kind of failure a caller reads off the message of a thrown error *)
KindOf(error) ==
    IF error.message = MsgTimeout THEN "TimeoutError"
    ELSE IF error.message = MsgCancelled THEN "CancelledError"
    ELSE IF error.message = MsgConnection THEN "ConnectionError"
    ELSE IF Len(error.message) > 0 /\ error.message[1] = MsgServerPrefix[1] THEN "ServerError"
    ELSE "Unclassified"

Age(c) == c.start - c.cached.timestamp

FreshLookup(c) == c.cached # NoEntry /\ Age(c) < CACHE_DURATION

StaleLookup(c) == c.cached # NoEntry /\ Age(c) >= CACHE_DURATION

BadStatus(c) == c.status # 0 /\ c.status \notin 200..299

----------------------------------------------------------------------------
(* C1: a call that finds an entry of its locator younger than TTL returns  *)
(* the payload instance of that entry, which an earlier call for the same  *)
(* locator stored, and issues no network request.                          *)
C1_FreshEntryIsReturnedWithoutRequest ==
    \A c \in AllCalls :
        FreshLookup(c) =>
            /\ c.pc = "returned"
            /\ c.hit
            /\ c.requests = 0
            /\ c.result = c.cached.data
            /\ c.result.url = c.url
            /\ c.result.id \in 1..(c.id - 1)

C1_Witness ==
    /\ last.hit
    /\ last.pc = "returned"
    /\ last.result.id = 1
    /\ Age(last) = Quantum

(* C2: a call answered from the cache was answered with an entry whose age *)
(* at the call was strictly below TTL, also after sweeps and clock jumps.  *)
C2_HitIsYoungerThanTTL ==
    \A c \in AllCalls :
        (c.hit \/ c.requests = 0) =>
            /\ c.cached # NoEntry
            /\ Age(c) >= 0
            /\ Age(c) < CACHE_DURATION
            /\ c.result = c.cached.data

C2_Witness ==
    /\ last.hit
    /\ Age(last) = CACHE_DURATION - Quantum
    /\ last.url \in lastSweep.kept

(* C3 as claimed: when a call that found its locator's entry aged TTL or   *)
(* more finishes, it has made a request and the entry's timestamp is       *)
(* greater than the one it found.                                          *)
C3_StaleLookupAlwaysUpdatesTimestamp ==
    [][ (last' # NoCall /\ StaleLookup(last')) =>
            /\ last'.requests = 1
            /\ CACHE'[last'.url] # NoEntry
            /\ CACHE'[last'.url].timestamp > last'.cached.timestamp ]_vars

(* C3 amended: a call that finds its locator's entry aged TTL or more      *)
(* makes a network request; when the request succeeds the entry is         *)
(* replaced by one with the new payload and a greater timestamp, and when  *)
(* it fails the cache is left as it is.                                    *)
C3_StaleLookupRefetches ==
    [][ /\ \A c \in pending' \ pending :
              c.pc = "fetch" => c.requests = 1 /\ ~FreshLookup(c)
        /\ (last' # NoCall /\ StaleLookup(last')) =>
              /\ last'.requests = 1
              /\ ~last'.hit
              /\ last'.pc = "returned" =>
                    /\ CACHE'[last'.url].timestamp > last'.cached.timestamp
                    /\ CACHE'[last'.url].timestamp = now'
                    /\ CACHE'[last'.url].data = last'.result
              /\ last'.pc = "threw" => CACHE' = CACHE ]_vars

C3_Witness ==
    /\ last.pc = "returned"
    /\ StaleLookup(last)
    /\ Age(last) = CACHE_DURATION
    /\ CACHE[last.url].timestamp > last.cached.timestamp

(* C4: the step in which a call fails leaves the cache as it was.          *)
C4_FailedCallLeavesCache ==
    [][ (last' # NoCall /\ last'.pc = "threw") => CACHE' = CACHE ]_vars

C4_Witness ==
    /\ last.pc = "threw"
    /\ last.cached # NoEntry
    /\ CACHE[last.url] = last.cached

(* C5: a response with a status outside 200..299 makes the call fail with  *)
(* a ServerError whose message holds the status code and text; the body is *)
(* not parsed and no entry is stored for the call.                         *)
C5_BadStatusIsServerError ==
    /\ \A c \in pending : ~BadStatus(c)
    /\ BadStatus(last) =>
          /\ last.pc = "threw"
          /\ KindOf(last.error) = "ServerError"
          /\ last.error.message =
                MsgServerPrefix \o <<"HTTP", ToString(last.status), last.statusText>>
          /\ ~last.parsed
          /\ \A k \in URLs : CACHE[k].data.id # last.id

C5_Witness ==
    /\ BadStatus(last)
    /\ last.status = 500
    /\ last.pc = "threw"

(* C6: a request still suspended 10 seconds after its start completes only *)
(* by failing with TimeoutError, whatever else is in flight.               *)
C6_OverdueRequestFailsWithTimeout ==
    [][ \A c \in pending :
            (now - c.start >= FETCH_TIMEOUT /\ c \notin pending') =>
                /\ last'.id = c.id
                /\ last'.pc = "threw"
                /\ last'.why = "timeout"
                /\ KindOf(last'.error) = "TimeoutError"
                /\ pending' = pending \ {c} ]_vars

C6_Witness ==
    /\ last.why = "timeout"
    /\ KindOf(last.error) = "TimeoutError"
    /\ last.parsed
    /\ pending # {}

(* C7: every error thrown to a caller is a new Error carrying one of the   *)
(* four messages, never the error that was caught.                         *)
C7_EveryFailureIsOneOfFourKinds ==
    last.pc = "threw" =>
        /\ KindOf(last.error) \in FourKinds
        /\ last.error.name = "Error"
        /\ last.error # last.cause
        /\ KindOf(last.error) = "ServerError" =>
              last.error.message = MsgServerPrefix \o last.cause.message

C7_Witness ==
    /\ last.pc = "threw"
    /\ last.why = "network"
    /\ KindOf(last.error) = "ConnectionError"

(* C8 as claimed: a failure to parse the body reaches the caller as the    *)
(* parse error itself, under none of the four kinds.                       *)
C8_ParseErrorIsUnhandled ==
    last.why = "parse" =>
        /\ last.error = last.cause
        /\ KindOf(last.error) \notin FourKinds

(* C8 amended: a failure to parse the body of a response with a success    *)
(* status is caught and reported as ConnectionError, or as ServerError     *)
(* when the parse error's message contains "HTTP"; the parse error itself  *)
(* does not reach the caller.                                              *)
C8_ParseErrorIsClassified ==
    last.why = "parse" =>
        /\ last.status \in 200..299
        /\ last.pc = "threw"
        /\ last.error # last.cause
        /\ last.error.name = "Error"
        /\ KindOf(last.error) =
              IF Includes(last.cause.message, "HTTP")
              THEN "ServerError" ELSE "ConnectionError"

C8_Witness ==
    /\ last.why = "parse"
    /\ last.cause.name = "SyntaxError"
    /\ KindOf(last.error) = "ConnectionError"

(* C9 as claimed: a failure that is no timeout, no cancellation and no     *)
(* status outside 200..299 is a ConnectionError, and a ServerError is      *)
(* reported only for a status outside 200..299.                            *)
C9_OnlyBadStatusIsServerError ==
    last.pc = "threw" =>
        /\ last.why \notin {"timeout", "cancel", "status"} =>
              KindOf(last.error) = "ConnectionError"
        /\ KindOf(last.error) = "ServerError" => BadStatus(last)

(* C10: a sweep deletes the entries older than TTL at that moment and only *)
(* those, and leaves the others as they were.                              *)
C10_SweepRemovesExactlyTheExpired ==
    [][ nextSweep' # nextSweep =>
            /\ \A k \in URLs :
                  CACHE'[k] = IF CACHE[k] # NoEntry
                                 /\ now - CACHE[k].timestamp > CACHE_DURATION
                              THEN NoEntry ELSE CACHE[k]
            /\ lastSweep'.deleted =
                  {k \in URLs : CACHE[k] # NoEntry
                                /\ now - CACHE[k].timestamp > CACHE_DURATION}
            /\ lastSweep'.kept = {k \in URLs : CACHE[k] # NoEntry} \ lastSweep'.deleted
      ]_vars

C10_Witness ==
    /\ lastSweep.deleted # {}
    /\ \E k \in lastSweep.kept :
          CACHE[k] # NoEntry /\ now - CACHE[k].timestamp = CACHE_DURATION

(* C11 as claimed: a lookup that finds its locator's entry aged TTL or     *)
(* more removes it, so that the entry is gone once the call has finished,  *)
(* whether the request succeeded or failed.                                *)
C11_StaleEntryRemovedByLookup ==
    [][ /\ \A c \in pending' \ pending :
              (c.pc = "fetch" /\ StaleLookup(c)) => CACHE'[c.url] = NoEntry
        /\ (last' # NoCall /\ StaleLookup(last')) =>
              CACHE'[last'.url] # last'.cached ]_vars

(* C11 amended: a lookup never removes an entry.  An entry leaves the      *)
(* cache only when a sweep finds it older than TTL or when a successful    *)
(* call for its locator overwrites it; after a lookup that found it stale  *)
(* and whose request failed, it is still there.                            *)
C11_StaleEntryLeftByLookup ==
    [][ /\ \A c \in pending' \ pending : c.pc = "fetch" => CACHE' = CACHE
        /\ (last' # NoCall /\ last'.pc = "threw") => CACHE' = CACHE
        /\ \A k \in URLs :
              (CACHE[k] # NoEntry /\ CACHE'[k] # CACHE[k]) =>
                  \/ /\ nextSweep' # nextSweep
                     /\ now - CACHE[k].timestamp > CACHE_DURATION
                     /\ CACHE'[k] = NoEntry
                  \/ /\ last' # NoCall
                     /\ last'.pc = "returned"
                     /\ last'.requests = 1
                     /\ last'.url = k
                     /\ CACHE'[k].data = last'.result ]_vars

C11_Witness ==
    /\ last.pc = "threw"
    /\ StaleLookup(last)
    /\ Age(last) > CACHE_DURATION
    /\ CACHE[last.url] = last.cached
    /\ now - CACHE[last.url].timestamp > CACHE_DURATION

(* C12: a call answered from the cache changes nothing: the cache, with    *)
(* the timestamp of the entry returned, the suspended calls and the sweep  *)
(* timer are as before, so the entry's age keeps counting from its         *)
(* insertion.                                                              *)
C12_HitHasNoSideEffect ==
    [][ (last' # NoCall /\ last'.hit) =>
            /\ CACHE' = CACHE
            /\ CACHE'[last'.url] = last'.cached
            /\ now' - CACHE'[last'.url].timestamp < CACHE_DURATION
            /\ pending' = pending
            /\ nextSweep' = nextSweep
            /\ now' = now ]_vars

C12_Witness ==
    /\ last.hit
    /\ Age(last) = 2 * Quantum
    /\ CACHE[last.url] = last.cached
    /\ CACHE[last.url].timestamp = 0

(* C13: the payload stored under a key is the body of a response to a      *)
(* request for exactly that key, and a call returns only a payload fetched *)
(* for its own locator.                                                    *)
C13_KeyedByExactLocator ==
    /\ \A k \in DOMAIN CACHE : CACHE[k] # NoEntry => CACHE[k].data.url = k
    /\ \A c \in AllCalls :
          /\ c.cached # NoEntry => c.cached.data.url = c.url
          /\ c.pc = "returned" => c.result.url = c.url

C13_Witness ==
    /\ \A k \in URLs : CACHE[k] # NoEntry /\ CACHE[k].data.url = k
    /\ last.pc = "returned"
    /\ last.id = 2

(* C14: every call that finds no fresh entry makes its own request, also   *)
(* while another call for the same locator is suspended, and every call    *)
(* whose request succeeds stores its own payload with the time of its      *)
(* completion, whatever entry is there: the call that completes last wins. *)
C14_NoDeduplicationLastWriterWins ==
    [][ /\ (issued' # issued /\ last' = NoCall) =>
              \E c \in pending' \ pending :
                  c.id = issued' /\ c.pc = "fetch" /\ c.requests = 1
        /\ (last' # NoCall /\ last'.pc = "returned" /\ last'.requests = 1) =>
              /\ last'.result = [url |-> last'.url, id |-> last'.id]
              /\ last'.replaced = CACHE[last'.url]
              /\ CACHE'[last'.url] = [data |-> last'.result, timestamp |-> now'] ]_vars

C14_Witness ==
    /\ last.pc = "returned"
    /\ last.id = 1
    /\ last.cached = NoEntry
    /\ last.replaced # NoEntry
    /\ last.replaced.data = [url |-> last.url, id |-> 2]
    /\ last.replaced.timestamp < now
    /\ CACHE[last.url] = [data |-> last.result, timestamp |-> now]

(* C15: the cache of the program with the sweep and the cache of the same  *)
(* program without it, fed the same calls and responses, differ only in    *)
(* entries older than TTL that the sweep has deleted; so every lookup      *)
(* finds a fresh entry in the one iff it does in the other, with the same  *)
(* payload, and makes the same decision.                                   *)
C15_SweepDoesNotChangeLoads ==
    \A k \in URLs :
        /\ (CACHE[k] # NoEntry /\ now - CACHE[k].timestamp < CACHE_DURATION)
              <=> (SHADOW[k] # NoEntry /\ now - SHADOW[k].timestamp < CACHE_DURATION)
        /\ CACHE[k] # SHADOW[k] =>
              /\ CACHE[k] = NoEntry
              /\ SHADOW[k] # NoEntry
              /\ now - SHADOW[k].timestamp > CACHE_DURATION

C15_Witness ==
    /\ last.pc = "threw"
    /\ last.cached = NoEntry
    /\ last.requests = 1
    /\ CACHE[last.url] = NoEntry
    /\ SHADOW[last.url] # NoEntry
    /\ last.url \in lastSweep.deleted

(* C16: no call makes more than one request, the step in which a call      *)
(* fails starts no request, and a request is started only for a new call   *)
(* made by the startup effect of a page load or by a viewport event.        *)
C16_NoRetries ==
    [][ /\ \A c \in pending' : c.requests = 1
        /\ last' # NoCall => last'.requests <= 1
        /\ (last' # NoCall /\ last'.pc = "threw") =>
              /\ issued' = issued
              /\ pending' \subseteq pending
        /\ \A c \in pending' \ pending :
              c.pc = "fetch" =>
                  /\ c.id > issued
                  /\ startup.state = "idle" \/ views' = views + 1 ]_vars

C16_Witness ==
    /\ last.pc = "threw"
    /\ last.requests = 1
    /\ last.id \notin StartupIds
    /\ pending = {}
    /\ issued = 3

(* C17: the displayed subset is the data set restricted, in order, to the  *)
(* records whose operator is the selected one when an operator is selected *)
(* and whose technology is the selected one when a technology is selected; *)
(* a record lacking properties is displayed iff nothing is selected.       *)
C17_FilteredAntenasIsTheMatchingSubset ==
    LET Matches(antena) ==
            /\ filters.operador = ""
                  \/ (antena.hasProperties /\ antena.properties.operador = filters.operador)
            /\ filters.tecnologia = ""
                  \/ (antena.hasProperties /\ antena.properties.tecnologia = filters.tecnologia)
        kept == {i \in 1..Len(antenas) : Matches(antenas[i])}
        Nth(j) == CHOOSE i \in kept : Cardinality({k \in kept : k <= i}) = j
    IN  /\ Len(FilteredAntenas) = Cardinality(kept)
        /\ \A j \in 1..Len(FilteredAntenas) : FilteredAntenas[j] = antenas[Nth(j)]
        /\ \A i \in 1..Len(antenas) :
              ~antenas[i].hasProperties =>
                  ((\E j \in 1..Len(FilteredAntenas) : FilteredAntenas[j] = antenas[i])
                      <=> (filters.operador = "" /\ filters.tecnologia = ""))

C17_Witness ==
    /\ filters.operador # ""
    /\ filters.tecnologia # ""
    /\ Len(FilteredAntenas) > 1
    /\ Len(FilteredAntenas) < Len(antenas) - 1
    /\ \E i \in 1..Len(antenas) : ~antenas[i].hasProperties
    /\ \E i \in 1..Len(antenas) :
          antenas[i].hasProperties /\ antenas[i].properties.operador = "undefined"

(* C18 as claimed: once the loading flag is false, neither startup load is *)
(* still in flight.                                                        *)
C18_LoadingUntilBothCompleted ==
    ~loading => \A c \in pending : c.id \notin StartupIds

(* C18 amended: the loading flag is true as long as no startup load has    *)
(* failed and not both have succeeded, and false from the first failure or *)
(* the second success on, whether or not the other load has completed.     *)
C18_LoadingUntilJoinSettles ==
    LET succeeded == {i \in StartupIds : startup.results[i] # NoData}
    IN  /\ loading => (startup.failed = {} /\ succeeded # StartupIds)
        /\ ~loading => (startup.failed # {} \/ succeeded = StartupIds)
        /\ startup.state = "pending" <=> (loading /\ issued > 0)

C18_Witness ==
    /\ ~loading
    /\ startup.failed = {StatsCall}
    /\ \E c \in pending : c.id = PageCall

C20_FailedViewportLoadChangesNothing ==
    [][ (last' # NoCall /\ last'.pc = "threw" /\ last'.id \notin StartupIds) =>
            /\ antenas' = antenas
            /\ appError' = appError
            /\ loading' = loading
            /\ stats' = stats
            /\ filters' = filters ]_vars

C20_Witness ==
    /\ last.pc = "threw"
    /\ last.id \notin StartupIds
    /\ Len(antenas) > 0
    /\ appError = NoMessage
    /\ ~loading
    /\ stats # NoData

(* C21 as claimed: a step that changes the operator or the technology      *)
(* selection issues a load whose locator carries the new selections.       *)
C21_FilterChangeIssuesALoad ==
    [][ ( /\ \/ filters'.operador # filters.operador
             \/ filters'.tecnologia # filters.tecnologia
          /\ issued' # 0 ) =>
            \E c \in (pending' \ pending) \cup {last'} :
                /\ c.id = issued + 1
                /\ c.url \in {ViewportURL(v, filters') : v \in Viewports} ]_vars

(* C22: a viewport load that returns is applied whatever has been applied  *)
(* before: also when a load issued after it has already returned, the data *)
(* set becomes the features of its own, older response.                    *)
C22_LateResponseOverwritesNewer ==
    [][ ( /\ last' # NoCall
          /\ last'.pc = "returned"
          /\ last'.id \notin StartupIds
          /\ \E k \in DOMAIN CACHE : CACHE[k].data.id > last'.result.id ) =>
            antenas' = (IF Body(last'.result).hasFeatures
                        THEN Body(last'.result).features ELSE <<>>) ]_vars

C22_Witness ==
    /\ last.pc = "returned"
    /\ last.requests = 1
    /\ last.id = 3
    /\ views = 2
    /\ pending = {}
    /\ \E k \in DOMAIN CACHE : CACHE[k].data.id = 4 /\ k # last.url
    /\ antenas = FeaturesOrEmpty([url |-> last.url, id |-> 3])
    /\ antenas # FeaturesOrEmpty([url |-> last.url, id |-> 4])

C26_TimestampsNeverDecrease ==
    [][ \A k \in DOMAIN CACHE :
          /\ CACHE'[k].timestamp <= now'
          /\ (CACHE[k] # NoEntry /\ CACHE'[k] # NoEntry) =>
                CACHE'[k].timestamp >= CACHE[k].timestamp ]_vars

C26_Witness ==
    /\ last.pc = "returned"
    /\ last.id = 1
    /\ last.replaced # NoEntry
    /\ last.replaced.data.id = 2
    /\ last.replaced.timestamp > last.start
    /\ CACHE[last.url].timestamp >= last.replaced.timestamp
    /\ CACHE[last.url].timestamp = now

(* C27: a step that changes the filters changes the operator alone, or the *)
(* technology alone, or empties both; it leaves the viewport field, the    *)
(* data set, stats, the error, the loading flag and the cache as they      *)
(* were; and the merge of an update gives every field the update names the *)
(* update's value and every other field its previous value.                *)
C27_FilterUpdateMergesNamedFields ==
    [][ (filters' # filters /\ issued' # 0) =>
            /\ filters'.viewport = filters.viewport
            /\ \/ filters'.tecnologia = filters.tecnologia
               \/ filters'.operador = filters.operador
               \/ (filters'.operador = "" /\ filters'.tecnologia = "")
            /\ antenas' = antenas
            /\ stats' = stats
            /\ appError' = appError
            /\ loading' = loading
            /\ CACHE' = CACHE
            /\ \E x \in FilterChanges :
                  \A k \in {"operador", "tecnologia", "viewport"} :
                      filters'[k] = IF k \in DOMAIN x THEN x[k] ELSE filters[k] ]_vars

C27_Witness ==
    /\ filters.operador = "Movistar"
    /\ filters.tecnologia = "5G"
    /\ filters.viewport = NoViewport
    /\ Len(antenas) > 0
    /\ last = NoCall
    /\ pending # {}

(* C23: a call of the viewport handler with a null viewport issues no      *)
(* call; with a viewport of zoom z it passes loadMapData the clusters path *)
(* when z <= 10 and the individual-records path when z > 10, followed by   *)
(* the encoded bbox, the zoom, the operator parameter iff an operator is   *)
(* selected and the technology parameter iff a technology is selected,     *)
(* with the values selected when the handler runs.                         *)
C23_ViewportLocator ==
    [][ viewportArg' # <<>> =>
          LET v == viewportArg'[1]
          IN  IF v = NoViewport
              THEN issued' = issued /\ pending' = pending /\ last' = NoCall
              ELSE \E c \in (pending' \ pending) \cup {last'} :
                      /\ c.id = issued'
                      /\ issued' = issued + 1
                      /\ c.url =
                           (IF v.zoom > 10 THEN "/map/antenas" ELSE "/map/clusters")
                             \o "?bbox=-4%2C40%2C-3%2C41"
                             \o (IF v.zoom = 10 THEN "&zoom=10" ELSE "&zoom=11")
                             \o (IF filters.operador = "" THEN ""
                                 ELSE "&operador=" \o filters.operador)
                             \o (IF filters.tecnologia = "" THEN ""
                                 ELSE "&tecnologia=" \o filters.tecnologia) ]_vars

C23_Witness ==
    /\ viewportArg # <<>>
    /\ viewportArg[1].zoom = 10
    /\ filters.operador = "Movistar"
    /\ filters.tecnologia = ""
    /\ \E c \in pending :
          /\ c.id = issued
          /\ c.url = "/map/clusters?bbox=-4%2C40%2C-3%2C41&zoom=10&operador=Movistar"

(* C25: every call that is suspended eventually returns or throws, and the *)
(* loading flag eventually becomes false and stays false.                  *)
C25_CallsCompleteAndLoadingEnds ==
    /\ \A i \in CallIds :
          (\E c \in pending : c.id = i) ~> ~(\E c \in pending : c.id = i)
    /\ <>[](~loading)

C25_Witness ==
    /\ last.pc = "threw"
    /\ last.why = "timeout"
    /\ last.id \in StartupIds
    /\ now - last.start >= FETCH_TIMEOUT
    /\ ~loading
    /\ appError = MsgStartup
    /\ pending # {}

(* C28 as claimed: the groups partition the input, the counts add up to    *)
(* the number of antennas, every representative is the first antenna       *)
(* farther than the grouping distance from all earlier representatives,    *)
(* and every antenna counted in a group is within the grouping distance of *)
(* its representative.                                                     *)
C28_GroupsByFartherThan ==
    LET n == Len(antenas)
        G == Len(groupedAntenas)
        Far(i, j) == Distance2(antenas[i].coordinates, antenas[j].coordinates)
                        > GroupDistance * GroupDistance
        Candidates(g) ==
            {i \in 1..n : \A h \in 1..(g - 1) :
                i # groupedAntenas[h].rep /\ Far(i, groupedAntenas[h].rep)}
    IN  groupedAntenas # <<>> =>
          /\ \A i \in 1..n : Cardinality({g \in 1..G : i \in groupedAntenas[g].members}) = 1
          /\ \A g \in 1..G :
                /\ groupedAntenas[g].rep \in Candidates(g)
                /\ \A i \in Candidates(g) : groupedAntenas[g].rep <= i
                /\ \A i \in groupedAntenas[g].members :
                      Distance2(antenas[i].coordinates,
                                antenas[groupedAntenas[g].rep].coordinates)
                          <= GroupDistance * GroupDistance

(* C28 amended: the groups partition the input, each count is the number   *)
(* of antennas counted in the group and the counts add up to the number of *)
(* antennas; every representative is the first antenna at a distance of at *)
(* least the grouping distance from all earlier representatives, and every *)
(* antenna counted in a group is counted in the first group whose          *)
(* representative is closer to it than the grouping distance.              *)
C28_GroupsByNotCloserThan ==
    LET n == Len(antenas)
        G == Len(groupedAntenas)
        Closer(i, j) == Distance2(antenas[i].coordinates, antenas[j].coordinates)
                           < GroupDistance * GroupDistance
        Candidates(g) ==
            {i \in 1..n : \A h \in 1..(g - 1) :
                i # groupedAntenas[h].rep /\ ~Closer(i, groupedAntenas[h].rep)}
        Total[g \in 0..G] == IF g = 0 THEN 0 ELSE Total[g - 1] + groupedAntenas[g].count
    IN  groupedAntenas # <<>> =>
          /\ \A i \in 1..n : Cardinality({g \in 1..G : i \in groupedAntenas[g].members}) = 1
          /\ Total[G] = n
          /\ \A g \in 1..G :
                /\ groupedAntenas[g].count = Cardinality(groupedAntenas[g].members)
                /\ groupedAntenas[g].coordinates = antenas[groupedAntenas[g].rep].coordinates
                /\ groupedAntenas[g].rep \in Candidates(g)
                /\ \A i \in Candidates(g) : groupedAntenas[g].rep <= i
                /\ \A i \in groupedAntenas[g].members :
                      /\ Closer(i, groupedAntenas[g].rep)
                      /\ i >= groupedAntenas[g].rep
                      /\ \A h \in 1..(g - 1) : ~Closer(i, groupedAntenas[h].rep)

C28_Witness ==
    /\ Len(antenas) = 3
    /\ Len(groupedAntenas) = 2
    /\ groupedAntenas[1].count = 2
    /\ groupedAntenas[2].rep = 3
    /\ Distance2(groupedAntenas[1].coordinates, groupedAntenas[2].coordinates)
          = GroupDistance * GroupDistance

====
